---- MODULE Spec2Model ----
\* One call of source_query's query(): the UDP exchange of src/src/info.rs
\* (src/src/lib.rs is the same code with a fixed 5 s timeout) and the decoding
\* of the A2S_INFO reply by Response::from_bytes / ServerInfo::from_bytes.
\*
\* The cursor reads are those of the `bytes` crate the code is written against
\* (Buf::get_u8 / get_i16::<LittleEndian> / get_u64::<LittleEndian>, all built
\* on Buf::copy_to_slice, which asserts remaining() >= dst.len() before it
\* copies anything): a read that needs more bytes than remain panics and does
\* not move the cursor.
EXTENDS Integers, Sequences, FiniteSets, TLC

VARIABLES
    pc,            \* position of the call: the next statement to execute
    timeout,       \* the `timeout` argument: <<>> is None, <<n>> is Some(n seconds)
    socket,        \* "none" (not yet bound), "open", "closed" (dropped)
    read_timeout,  \* the socket's receive timeout, "unset" until set_read_timeout
    steps,         \* history: the socket operations performed, in order
    sent,          \* history: the datagrams handed to socket.send
    reply,         \* environment: what the server answered (set at recv)
    recbuf,        \* the bytes recv wrote at the front of the receive buffer
    rec,           \* the length socket.recv returned
    calls,         \* history: the buffers from_bytes was invoked on
    buf,           \* from_bytes' argument b
    pos,           \* from_bytes' cursor position (bytes consumed)
    s,             \* get_string's accumulator
    rd,            \* from_bytes' locals decoded so far: field name -> value
    spans,         \* history: field name -> <<cursor before, cursor after>>
    reads,         \* history: the buffer indices (1-based) get_* has read, in order
    result         \* what the call returned (kind "none" while it runs)

vars == <<pc, timeout, socket, read_timeout, steps, sent, reply, recbuf, rec,
          calls, buf, pos, s, rd, spans, reads, result>>

-----------------------------------------------------------------------------
\* Bounds of the model

\* Longest text field (name, map, ..., keywords) the modelled server sends.
MaxStrLen == 2

-----------------------------------------------------------------------------
\* Program constants

HEADER == 73          \* 0x49
RECBUF_LEN == 1024    \* vec![0; 1024]
LIB_TIMEOUT == 5      \* lib.rs: Duration::from_secs(5)

Byte == 0..255

None == <<>>
Some(v) == <<v>>

Zeros(n) == [i \in 1..n |-> 0]

\* buf.put_slice(&[0xFF, 0xFF, 0xFF, 0xFF, 0x54]); buf.put_slice(b"Source Engine Query\0")
Request ==
    <<255, 255, 255, 255, 84>> \o
    <<83, 111, 117, 114, 99, 101, 32, 69, 110, 103, 105, 110, 101, 32,
      81, 117, 101, 114, 121, 0>>

-----------------------------------------------------------------------------
\* Pure helpers of the decoder

\* edf & m != 0, for m a single bit
BitSet(e, m) == (e \div m) % 2 = 1

\* `b as char`: the char whose code point is the byte (Latin-1)
as_char(b) == [cp |-> b]

\* format!("{}", c) for a char: its UTF-8 encoding
fmt_char(c) ==
    IF c.cp < 128 THEN <<c.cp>>
    ELSE <<192 + (c.cp \div 64), 128 + (c.cp % 64)>>

\* faulty variant of read_i16: the bytes taken in big-endian order
read_i16_big_endian(b0, b1) ==
    LET u == 256 * b0 + b1
    IN  IF u >= 32768 THEN u - 65536 ELSE u

\* LittleEndian::read_i16 of two bytes
read_i16(b0, b1) ==
    LET u == b0 + 256 * b1
    IN  IF u >= 32768 THEN u - 65536 ELSE u

\* LittleEndian::read_i32 of four bytes
read_i32(b0, b1, b2, b3) ==
    LET low  == b0 + 256 * b1 + 65536 * b2
        high == IF b3 >= 128 THEN b3 - 256 ELSE b3
    IN  16777216 * high + low

\* LittleEndian::read_u64 of eight bytes. A u64 does not fit the checker's
\* integers: the value is kept as its four 16-bit limbs, least significant first.
read_u64(b) ==
    [i \in 1..4 |-> b[2 * i - 1] + 256 * b[2 * i]]

\* Buf::remaining() of a cursor at position p over a buffer of length n
remaining(p, n) == IF p >= n THEN 0 ELSE n - p

-----------------------------------------------------------------------------
\* The server: the replies socket.recv can deliver. A reply is described by
\* the field values the server encoded (info), the datagram (bytes) and
\* whether the datagram is a complete, valid A2S_INFO reply (wf).

Text(n) == [i \in 1..n |-> IF i % 2 = 1 THEN 65 ELSE 233]

CStr(t) == t \o <<0>>

LE16(v) ==
    LET u == (v + 65536) % 65536
    IN  <<u % 256, u \div 256>>

LE64(l) == LE16(l[1]) \o LE16(l[2]) \o LE16(l[3]) \o LE16(l[4])

Lead == <<255, 255, 255, 255>>

\* the EDF bytes made of the five meaningful bits only
EdfCombos == {e \in Byte : \A m \in {2, 4, 8} : ~BitSet(e, m)}

ServerTypes == {100, 108, 112}   \* 'd', 'l', 'p'
Environments == {108, 119, 109}  \* 'l', 'w', 'm'

Base(n) ==
    [header |-> HEADER, protocol_version |-> 17,
     name |-> Text(n), map |-> Text(n), folder |-> Text(n), game |-> Text(n),
     steamapp_id |-> 10, players |-> 5, max_players |-> 16, bots |-> 0,
     server_type |-> 100, os |-> 108, visibility |-> 0, vac |-> 1,
     version |-> Text(n), edf |-> 0,
     port |-> 27015, steam_id |-> <<1, 515, 0, 65535>>,
     spectator_port |-> -2, spectator_name |-> Text(n),
     keywords |-> Text(n), game_id |-> <<42, 0, 0, 0>>]

Encode(i) ==
    <<i.header, i.protocol_version>>
    \o CStr(i.name) \o CStr(i.map) \o CStr(i.folder) \o CStr(i.game)
    \o LE16(i.steamapp_id)
    \o <<i.players, i.max_players, i.bots, i.server_type, i.os,
         i.visibility, i.vac>>
    \o CStr(i.version) \o <<i.edf>>
    \o (IF BitSet(i.edf, 128) THEN LE16(i.port) ELSE <<>>)
    \o (IF BitSet(i.edf, 16) THEN LE64(i.steam_id) ELSE <<>>)
    \o (IF BitSet(i.edf, 64)
        THEN LE16(i.spectator_port) \o CStr(i.spectator_name) ELSE <<>>)
    \o (IF BitSet(i.edf, 32) THEN CStr(i.keywords) ELSE <<>>)
    \o (IF BitSet(i.edf, 1) THEN LE64(i.game_id) ELSE <<>>)

ValidInfo(i) ==
    /\ i.header = HEADER
    /\ i.server_type \in ServerTypes
    /\ i.os \in Environments

\* A reply: the four leading bytes, the encoding of info, then `tail` (bytes
\* the decoder has no use for), of which the first `cut` bytes are sent.
Full(r) == r.lead \o Encode(r.info) \o r.tail

Datagram(r) == SubSeq(Full(r), 1, r.cut)

\* a complete reply
Whole(i, tail) ==
    [info |-> i, lead |-> Lead, tail |-> tail,
     cut |-> 4 + Len(Encode(i)) + Len(tail)]

\* every proper prefix of a reply
Prefixes(r) == {[r EXCEPT !.cut = n] : n \in 0..(Len(Full(r)) - 1)}

EdfReplies ==
    {Whole([Base(n) EXCEPT !.edf = e], <<>>) : e \in Byte, n \in 0..MaxStrLen}
    \cup {Whole([Base(1) EXCEPT !.edf = e], <<0, 9>>) : e \in Byte}

MixReplies ==
    {Whole([Base(1) EXCEPT !.edf = e, !.version = Text(a),
                           !.spectator_name = Text(b), !.keywords = Text(c)],
           <<>>) :
        e \in EdfCombos, a \in 0..MaxStrLen, b \in 0..MaxStrLen,
        c \in 0..MaxStrLen}

TruncatedReplies ==
    UNION ({Prefixes(Whole([Base(1) EXCEPT !.edf = e], <<>>)) : e \in EdfCombos}
           \cup {Prefixes(Whole([Base(n) EXCEPT !.edf = e], <<>>)) :
                    e \in {0, 241}, n \in 0..MaxStrLen})

EnumReplies ==
    {Whole([Base(0) EXCEPT !.server_type = t, !.os = o], <<>>) :
        t \in Byte, o \in {108, 119, 109, 122, 0, 255}}
    \cup {Whole([Base(0) EXCEPT !.server_type = t, !.os = o], <<>>) :
        t \in {100, 108, 112, 120}, o \in Byte}

FlagReplies ==
    {Whole([Base(0) EXCEPT !.visibility = v, !.vac = a], <<>>) :
        v \in Byte, a \in {0, 1, 2, 255}}
    \cup {Whole([Base(0) EXCEPT !.visibility = v, !.vac = a], <<>>) :
        v \in {0, 1, 255}, a \in Byte}

HeaderReplies ==
    {Whole([Base(1) EXCEPT !.header = h], <<>>) : h \in Byte}
    \cup {[Whole([Base(1) EXCEPT !.header = h], <<>>) EXCEPT !.cut = 5] :
            h \in Byte}

LeadBytes == {0, 127, 128, 254, 255}

LeadReplies ==
    {[Whole(Base(1), <<>>) EXCEPT !.lead = <<a, b, c, d>>] :
        a \in LeadBytes, b \in LeadBytes, c \in LeadBytes, d \in LeadBytes}

\* the two concrete replies of the protocol description
Scenario ==
    [header |-> HEADER, protocol_version |-> 17,
     name |-> <<84, 101, 115, 116>>,
     map |-> <<100, 101, 95, 100, 117, 115, 116, 50>>,
     folder |-> <<99, 115, 116, 114, 105, 107, 101>>,
     game |-> <<67, 111, 117, 110, 116, 101, 114, 45, 83, 116, 114, 105,
                107, 101>>,
     steamapp_id |-> 16, players |-> 5, max_players |-> 16, bots |-> 0,
     server_type |-> 100, os |-> 108, visibility |-> 0, vac |-> 1,
     version |-> <<49, 46, 48>>, edf |-> 0,
     port |-> 27393, steam_id |-> <<0, 0, 0, 0>>,
     spectator_port |-> 0, spectator_name |-> <<>>,
     keywords |-> <<>>, game_id |-> <<42, 0, 0, 0>>]

ScenarioReplies ==
    {Whole(Scenario, <<>>), Whole([Scenario EXCEPT !.edf = 129], <<>>)}

\* a datagram longer than the receive buffer: its name alone fills it
BigReplies ==
    {Whole([Base(0) EXCEPT !.name = [i \in 1..RECBUF_LEN |-> 65]], <<>>)}

Replies ==
    EdfReplies \cup MixReplies \cup TruncatedReplies \cup EnumReplies
    \cup FlagReplies \cup HeaderReplies \cup LeadReplies
    \cup ScenarioReplies \cup BigReplies

\* no datagram has arrived
NoReply == [info |-> Base(0), lead |-> Lead, tail |-> <<>>, cut |-> -1]

-----------------------------------------------------------------------------
\* Results of the call

NoResult == [kind |-> "none", error |-> "", msg |-> <<>>, value |-> <<>>]

\* Ok(Self { .. })
Ok(v) == [kind |-> "Ok", error |-> "", msg |-> <<>>, value |-> v]

\* Err(Error::new(kind, msg)), or an error of the socket layer (msg empty)
Err(e, m) == [kind |-> "Err", error |-> e, msg |-> m, value |-> <<>>]

\* the assertion of Buf::copy_to_slice failed: the thread panics
Panicked == [kind |-> "Panic", error |-> "", msg |-> <<>>, value |-> <<>>]

Timeouts == {None, Some(0), Some(LIB_TIMEOUT)}

Init ==
    /\ pc = "bind"
    /\ timeout \in Timeouts
    /\ socket = "none"
    /\ read_timeout = "unset"
    /\ steps = <<>>
    /\ sent = <<>>
    /\ reply = NoReply
    /\ recbuf = <<>>
    /\ rec = 0
    /\ calls = <<>>
    /\ buf = <<>>
    /\ pos = 0
    /\ s = <<>>
    /\ rd = <<>>
    /\ spans = <<>>
    /\ reads = <<>>
    /\ result = NoResult

decodeVars == <<calls, buf, pos, s, rd, spans, reads>>
recvVars == <<reply, recbuf, rec>>
ioVars == <<timeout, read_timeout, steps, sent, reply, recbuf, rec, calls, buf>>

\* faulty variant of Return: the socket outlives the call
ReturnLeaksSocket(r) ==
    /\ result' = r
    /\ pc' = "done"
    /\ UNCHANGED socket

\* The call ends with r. `socket` is a local of query: leaving the function,
\* by return, by `?` or by unwinding, drops it, and dropping a UdpSocket closes it.
Return(r) ==
    /\ result' = r
    /\ pc' = "done"
    /\ socket' = IF socket = "open" THEN "closed" ELSE socket

-----------------------------------------------------------------------------
\* query: the exchange

\* let socket = UdpSocket::bind("0.0.0.0:0")?;
Bind ==
    /\ pc = "bind"
    /\ steps' = Append(steps, "bind")
    /\ \/ /\ socket' = "open"
          /\ pc' = "set_read_timeout"
          /\ UNCHANGED result
       \/ /\ result' = Err("AddrNotAvailable", <<>>)
          /\ pc' = "done"
          /\ UNCHANGED socket
    /\ UNCHANGED <<timeout, read_timeout, sent, recvVars, decodeVars>>

\* socket.set_read_timeout(timeout)?;  (Some(zero) is refused by the socket)
SetReadTimeout ==
    /\ pc = "set_read_timeout"
    /\ steps' = Append(steps, "set_read_timeout")
    /\ \/ /\ timeout # Some(0)
          /\ read_timeout' = timeout
          /\ pc' = "connect"
          /\ UNCHANGED <<socket, result>>
       \/ /\ timeout = Some(0)
          /\ Return(Err("InvalidInput", <<>>))
          /\ UNCHANGED read_timeout
       \/ /\ Return(Err("Other", <<>>))
          /\ UNCHANGED read_timeout
    /\ UNCHANGED <<timeout, sent, recvVars, decodeVars>>

\* socket.connect(addr)?;
Connect ==
    /\ pc = "connect"
    /\ steps' = Append(steps, "connect")
    /\ \/ /\ pc' = "send"
          /\ UNCHANGED <<socket, result>>
       \/ Return(Err("InvalidInput", <<>>))
    /\ UNCHANGED <<timeout, read_timeout, sent, recvVars, decodeVars>>

\* socket.send(&buf)?;
Send ==
    /\ pc = "send"
    /\ steps' = Append(steps, "send")
    /\ \/ /\ sent' = Append(sent, Request)
          /\ pc' = "recv"
          /\ UNCHANGED <<socket, result>>
       \/ /\ Return(Err("ConnectionRefused", <<>>))
          /\ UNCHANGED sent
    /\ UNCHANGED <<timeout, read_timeout, recvVars, decodeVars>>

\* what recv leaves in the buffer: the datagram, cut to the buffer's size
RecvLen(d) == IF Len(d) > RECBUF_LEN THEN RECBUF_LEN ELSE Len(d)

RecvInto(d) == SubSeq(d, 1, RecvLen(d))

\* the receive buffer as a whole: what recv wrote, then the zeros of vec![0; 1024]
RecBuf == recbuf \o Zeros(RECBUF_LEN - Len(recbuf))

\* faulty variant of Received: the cursor spans the whole receive buffer
ReceivedWholeBuffer == RecBuf

\* Cursor::new(&recbuf[..rec])
Received == SubSeq(RecBuf, 1, rec)

\* faulty variant of Recv: a timed-out receive is tried again
RecvRetries ==
    /\ pc = "recv"
    /\ steps' = Append(steps, "recv")
    /\ \/ \E r \in Replies :
            /\ reply' = r
            /\ recbuf' = SubSeq(Datagram(r), 1, RecvLen(Datagram(r)))
            /\ rec' = Len(recbuf')
            /\ pc' = "query_header"
            /\ UNCHANGED <<socket, result>>
       \/ /\ read_timeout # None
          /\ UNCHANGED <<pc, socket, result, reply, recbuf, rec>>
       \/ /\ Return(Err("ConnectionRefused", <<>>))
          /\ UNCHANGED <<reply, recbuf, rec>>
    /\ UNCHANGED <<timeout, read_timeout, sent, calls, buf, pos, s, rd, spans,
                   reads>>

\* let mut recbuf = vec![0; 1024]; let rec = socket.recv(&mut recbuf)?;
Recv ==
    /\ pc = "recv"
    /\ steps' = Append(steps, "recv")
    /\ \/ \E r \in Replies :
            /\ reply' = r
            /\ recbuf' = RecvInto(Datagram(r))
            /\ rec' = RecvLen(Datagram(r))
            /\ pc' = "query_header"
            /\ UNCHANGED <<socket, result>>
       \/ /\ read_timeout # None
          /\ Return(Err("WouldBlock", <<>>))
          /\ UNCHANGED recvVars
       \/ /\ Return(Err("ConnectionRefused", <<>>))
          /\ UNCHANGED recvVars
    /\ UNCHANGED <<timeout, read_timeout, sent, decodeVars>>

\* let mut cur = Cursor::new(&recbuf[..rec]);
\* let header = cur.get_i32::<LittleEndian>();
\* if header == -1 { cur.bytes().to_owned() } else { return Err(..) };
\* Response::from_bytes(&mut buf)
QueryHeader ==
    /\ pc = "query_header"
    /\ IF remaining(0, Len(Received)) < 4
       THEN /\ Return(Panicked)
            /\ UNCHANGED <<calls, buf>>
       ELSE LET cur == Received
                header == read_i32(cur[1], cur[2], cur[3], cur[4])
            IN  IF header = -1
                THEN /\ buf' = SubSeq(cur, 5, Len(cur))
                     /\ calls' = Append(calls, buf')
                     /\ pc' = "header"
                     /\ UNCHANGED <<socket, result>>
                ELSE /\ Return(Err("InvalidData", <<"Unknown header: ", header>>))
                     /\ UNCHANGED <<calls, buf>>
    /\ UNCHANGED <<timeout, read_timeout, steps, sent, recvVars,
                   pos, s, rd, spans, reads>>

-----------------------------------------------------------------------------
\* from_bytes: the cursor reads

\* the assertion in Buf::copy_to_slice: self.remaining() >= dst.len()
CanRead(n) == remaining(pos, Len(buf)) >= n

\* the n bytes copy_to_slice copies out
Taken(n) == SubSeq(buf, pos + 1, pos + n)

\* the cursor after copy_to_slice of n bytes
Advance(n) ==
    /\ pos' = pos + n
    /\ reads' = reads \o [i \in 1..n |-> pos + i]

\* faulty variant of Underrun: the cursor is moved on before the failure
UnderrunAdvances ==
    /\ Return(Panicked)
    /\ pos' = pos + 1
    /\ reads' = Append(reads, pos + 1)
    /\ UNCHANGED <<s, rd, spans>>

\* a read that needs n bytes where fewer remain
Underrun ==
    /\ Return(Panicked)
    /\ UNCHANGED <<pos, s, rd, spans, reads>>

\* let f = v;  for a value v decoded from the next n bytes; continue at next
Bind_(f, v, n, next) ==
    /\ Advance(n)
    /\ rd' = rd @@ (f :> v)
    /\ spans' = spans @@ (f :> <<pos, pos + n>>)
    /\ pc' = next
    /\ UNCHANGED <<s, socket, result>>

\* let f = None;  for an optional field whose EDF bit is clear
Absent(f, next) ==
    /\ rd' = rd @@ (f :> None)
    /\ pc' = next
    /\ UNCHANGED <<pos, s, spans, reads, socket, result>>

\* let f = cur.get_u8();
get_u8(f, next) ==
    IF CanRead(1) THEN Bind_(f, Taken(1)[1], 1, next) ELSE Underrun

\* let f = cur.get_i16::<LittleEndian>();
get_i16(f, next) ==
    IF CanRead(2)
    THEN Bind_(f, read_i16(Taken(2)[1], Taken(2)[2]), 2, next)
    ELSE Underrun

\* one iteration of get_string's loop, reading into field f:
\*   let b = cur.get_u8(); if b == 0 { break } else { s.push(b as char) }
\* wrap is Some for the fields built as Some(get_string(..))
get_string(f, some, next) ==
    IF ~CanRead(1) THEN Underrun
    ELSE LET b == Taken(1)[1]
         IN  /\ Advance(1)
             /\ IF b = 0
                THEN /\ rd' = rd @@ (f :> IF some THEN Some(s) ELSE s)
                     /\ spans' = spans @@ (f :> <<pos - Len(s), pos + 1>>)
                     /\ s' = <<>>
                     /\ pc' = next
                ELSE /\ s' = Append(s, as_char(b))
                     /\ UNCHANGED <<rd, spans, pc>>
             /\ UNCHANGED <<socket, result>>

-----------------------------------------------------------------------------
\* from_bytes: one action per statement

\* faulty variant of header_ok: the letter the message names, 'l'
header_ok_lower_l(header) == header = 108

\* header != 0x49, negated
header_ok(header) == header = HEADER

\* let header = cur.get_u8(); if header != 0x49 { return Err(..) }
\* (the message's fixed text is abridged; its variable part is the char)
Header ==
    /\ pc = "header"
    /\ IF ~CanRead(1) THEN Underrun
       ELSE LET header == Taken(1)[1]
            IN  /\ Advance(1)
                /\ IF ~header_ok(header)
                   THEN Return(Err("InvalidData",
                            <<"Expected header, got: ",
                              fmt_char(as_char(header))>>))
                   ELSE /\ pc' = "protocol_version"
                        /\ UNCHANGED <<socket, result>>
                /\ UNCHANGED <<s, rd, spans>>
    /\ UNCHANGED ioVars

ProtocolVersion ==
    /\ pc = "protocol_version"
    /\ get_u8("protocol_version", "name")
    /\ UNCHANGED ioVars

Name ==
    /\ pc = "name"
    /\ get_string("name", FALSE, "map")
    /\ UNCHANGED ioVars

Map ==
    /\ pc = "map"
    /\ get_string("map", FALSE, "folder")
    /\ UNCHANGED ioVars

Folder ==
    /\ pc = "folder"
    /\ get_string("folder", FALSE, "game")
    /\ UNCHANGED ioVars

Game ==
    /\ pc = "game"
    /\ get_string("game", FALSE, "steamapp_id")
    /\ UNCHANGED ioVars

SteamappId ==
    /\ pc = "steamapp_id"
    /\ get_i16("steamapp_id", "players")
    /\ UNCHANGED ioVars

Players ==
    /\ pc = "players"
    /\ get_u8("players", "max_players")
    /\ UNCHANGED ioVars

MaxPlayers ==
    /\ pc = "max_players"
    /\ get_u8("max_players", "bots")
    /\ UNCHANGED ioVars

Bots ==
    /\ pc = "bots"
    /\ get_u8("bots", "server_type")
    /\ UNCHANGED ioVars

\* faulty variant of server_type_of: upper-case 'D' accepted as well
server_type_of_caseless(c) ==
    CASE c.cp \in {100, 68} -> "Dedicated"
      [] c.cp = 108 -> "NonDedicated"
      [] c.cp = 112 -> "SourceTVRelay"
      [] OTHER -> "?"

\* match cur.get_u8() as char { 'd' => .., 'l' => .., 'p' => .., c => return Err(..) }
server_type_of(c) ==
    CASE c.cp = 100 -> "Dedicated"
      [] c.cp = 108 -> "NonDedicated"
      [] c.cp = 112 -> "SourceTVRelay"
      [] OTHER -> "?"

ServerType ==
    /\ pc = "server_type"
    /\ IF ~CanRead(1) THEN Underrun
       ELSE LET c == as_char(Taken(1)[1])
            IN  IF server_type_of(c) # "?"
                THEN Bind_("server_type", server_type_of(c), 1, "os")
                ELSE /\ Advance(1)
                     /\ Return(Err("InvalidData",
                            <<"Unknown server type: ", fmt_char(c)>>))
                     /\ UNCHANGED <<s, rd, spans>>
    /\ UNCHANGED ioVars

\* match cur.get_u8() as char { 'l' => .., 'w' => .., 'm' => .., c => return Err(..) }
os_of(c) ==
    CASE c.cp = 108 -> "Linux"
      [] c.cp = 119 -> "Windows"
      [] c.cp = 109 -> "Mac"
      [] OTHER -> "?"

Os ==
    /\ pc = "os"
    /\ IF ~CanRead(1) THEN Underrun
       ELSE LET c == as_char(Taken(1)[1])
            IN  IF os_of(c) # "?"
                THEN Bind_("os", os_of(c), 1, "is_public")
                ELSE /\ Advance(1)
                     /\ Return(Err("InvalidData",
                            <<"Unknown environment: ", fmt_char(c)>>))
                     /\ UNCHANGED <<s, rd, spans>>
    /\ UNCHANGED ioVars

\* let is_public = cur.get_u8() == 0;
IsPublic ==
    /\ pc = "is_public"
    /\ IF CanRead(1)
       THEN Bind_("is_public", Taken(1)[1] = 0, 1, "uses_vac")
       ELSE Underrun
    /\ UNCHANGED ioVars

\* faulty variant of uses_vac_of: any nonzero byte counts as true
uses_vac_of_nonzero(b) == b # 0

\* cur.get_u8() == 1
uses_vac_of(b) == b = 1

\* let uses_vac = cur.get_u8() == 1;
UsesVac ==
    /\ pc = "uses_vac"
    /\ IF CanRead(1)
       THEN Bind_("uses_vac", uses_vac_of(Taken(1)[1]), 1, "version")
       ELSE Underrun
    /\ UNCHANGED ioVars

Version ==
    /\ pc = "version"
    /\ get_string("version", FALSE, "edf")
    /\ UNCHANGED ioVars

Edf ==
    /\ pc = "edf"
    /\ get_u8("edf", "port")
    /\ UNCHANGED ioVars

\* let port = if edf & 0x80 != 0 { Some(cur.get_i16()) } else { None };
Port ==
    /\ pc = "port"
    /\ IF BitSet(rd.edf, 128)
       THEN IF CanRead(2)
            THEN Bind_("port", Some(read_i16(Taken(2)[1], Taken(2)[2])), 2,
                       "steam_id")
            ELSE Underrun
       ELSE Absent("port", "steam_id")
    /\ UNCHANGED ioVars

\* faulty variant of SteamId: the field is gated by bit 0x08
SteamIdOnBit08 ==
    /\ pc = "steam_id"
    /\ IF BitSet(rd.edf, 8)
       THEN IF CanRead(8)
            THEN Bind_("steam_id", Some(read_u64(Taken(8))), 8, "spectator_port")
            ELSE Underrun
       ELSE Absent("steam_id", "spectator_port")
    /\ UNCHANGED ioVars

\* let steam_id = if edf & 0x10 != 0 { Some(cur.get_u64()) } else { None };
SteamId ==
    /\ pc = "steam_id"
    /\ IF BitSet(rd.edf, 16)
       THEN IF CanRead(8)
            THEN Bind_("steam_id", Some(read_u64(Taken(8))), 8, "spectator_port")
            ELSE Underrun
       ELSE Absent("steam_id", "spectator_port")
    /\ UNCHANGED ioVars

\* let (spectator_port, spectator_name) = if edf & 0x40 != 0 {
\*     (Some(cur.get_i16()), Some(get_string(&mut cur))) } else { (None, None) };
SpectatorPort ==
    /\ pc = "spectator_port"
    /\ IF BitSet(rd.edf, 64)
       THEN IF CanRead(2)
            THEN Bind_("spectator_port",
                       Some(read_i16(Taken(2)[1], Taken(2)[2])), 2,
                       "spectator_name")
            ELSE Underrun
       ELSE /\ rd' = rd @@ ("spectator_port" :> None)
                        @@ ("spectator_name" :> None)
            /\ pc' = "keywords"
            /\ UNCHANGED <<pos, s, spans, reads, socket, result>>
    /\ UNCHANGED ioVars

SpectatorName ==
    /\ pc = "spectator_name"
    /\ get_string("spectator_name", TRUE, "keywords")
    /\ UNCHANGED ioVars

\* let keywords = if edf & 0x20 != 0 { Some(get_string(&mut cur)) } else { None };
Keywords ==
    /\ pc = "keywords"
    /\ IF BitSet(rd.edf, 32)
       THEN get_string("keywords", TRUE, "game_id")
       ELSE Absent("keywords", "game_id")
    /\ UNCHANGED ioVars

\* let game_id = if edf & 0x01 != 0 { Some(cur.get_u64()) } else { None };
GameId ==
    /\ pc = "game_id"
    /\ IF BitSet(rd.edf, 1)
       THEN IF CanRead(8)
            THEN Bind_("game_id", Some(read_u64(Taken(8))), 8, "ok")
            ELSE Underrun
       ELSE Absent("game_id", "ok")
    /\ UNCHANGED ioVars

\* the fields of the record, as Ok(Self { .. }) names them (edf is not one)
Fields ==
    {"protocol_version", "name", "map", "folder", "game", "steamapp_id",
     "players", "max_players", "bots", "server_type", "os", "is_public",
     "uses_vac", "version", "port", "steam_id", "spectator_port",
     "spectator_name", "keywords", "game_id"}

\* Ok(Self { protocol_version, name, .. , game_id })
ReturnOk ==
    /\ pc = "ok"
    /\ Return(Ok([f \in Fields |-> rd[f]]))
    /\ UNCHANGED <<pos, s, rd, spans, reads>>
    /\ UNCHANGED ioVars

-----------------------------------------------------------------------------

Next ==
    \/ Bind \/ SetReadTimeout \/ Connect \/ Send \/ Recv \/ QueryHeader
    \/ Header \/ ProtocolVersion \/ Name \/ Map \/ Folder \/ Game
    \/ SteamappId \/ Players \/ MaxPlayers \/ Bots \/ ServerType \/ Os
    \/ IsPublic \/ UsesVac \/ Version \/ Edf
    \/ Port \/ SteamId \/ SpectatorPort \/ SpectatorName \/ Keywords \/ GameId
    \/ ReturnOk

Spec == Init /\ [][Next]_vars

-----------------------------------------------------------------------------
\* Vocabulary of the properties

Done == pc = "done"

\* a datagram has been received
Replied == reply.cut >= 0

Min(a, b) == IF a < b THEN a ELSE b

\* the bytes that reached the program: the datagram, cut to the receive buffer
Arrived == SubSeq(Datagram(reply), 1, Min(reply.cut, RECBUF_LEN))

\* the bytes after the 4-byte leading value
Body == SubSeq(Arrived, 5, Len(Arrived))

\* the reply is a valid A2S_INFO reply and all of it arrived
WellFormed ==
    /\ Replied
    /\ reply.lead = Lead
    /\ ValidInfo(reply.info)
    /\ reply.cut >= 4 + Len(Encode(reply.info))
    /\ reply.cut <= RECBUF_LEN

\* the reply is a valid A2S_INFO reply of which only a part arrived
Truncated ==
    /\ Replied
    /\ reply.lead = Lead
    /\ ValidInfo(reply.info)
    /\ Len(Arrived) < 4 + Len(Encode(reply.info))

\* the UTF-8 text of the character U+00xx
Utf8(b) == IF b < 128 THEN <<b>> ELSE <<192 + (b \div 64), 128 + (b % 64)>>

IsErr(text) ==
    /\ result.kind = "Err"
    /\ result.error = "InvalidData"
    /\ result.msg # <<>>
    /\ result.msg[1] = text
    /\ result.value = <<>>

IsErrWith(text, rendered) == IsErr(text) /\ result.msg[2] = rendered

InDecode == pc \notin {"bind", "set_read_timeout", "connect", "send", "recv",
                       "query_header", "done"}

-----------------------------------------------------------------------------
\* C1: a reply that ends before a byte the decoder needs (fewer than 4 bytes
\* of leading value, or a body cut inside a fixed-width field, inside a string
\* or before an EDF-gated field) makes the call return a decode error value;
\* it does not panic and returns no record.
C1_TruncatedReplyIsAnError ==
    (Done /\ Truncated) => result.kind = "Err"

-----------------------------------------------------------------------------
\* C2: for every EDF byte and every well-formed reply the decode succeeds;
\* each optional field is present iff its bit is set (spectator_port and
\* spectator_name together), carries the value the server encoded, and was
\* read from the stream in the order port, steam_id, spectator_port,
\* spectator_name, keywords, game_id, taking 2, 8, 2, string, string, 8 bytes;
\* absent fields and the bits 0x02, 0x04, 0x08 take nothing.
C2_When(bit, f, v) ==
    result.value[f] = IF BitSet(reply.info.edf, bit) THEN Some(v) ELSE None

C2_Span(bit, f, from, n) ==
    IF BitSet(reply.info.edf, bit)
    THEN f \in DOMAIN spans /\ spans[f] = <<from, from + n>>
    ELSE f \notin DOMAIN spans

C2_Size(bit, n) == IF BitSet(reply.info.edf, bit) THEN n ELSE 0

C2_EdfGatesOptionalFields ==
    (Done /\ WellFormed) =>
        LET i  == reply.info
            chars(t) == [k \in 1..Len(t) |-> [cp |-> t[k]]]
            p0 == Len(Encode([i EXCEPT !.edf = 0]))
            p1 == p0 + C2_Size(128, 2)
            p2 == p1 + C2_Size(16, 8)
            p3 == p2 + C2_Size(64, 2)
            p4 == p3 + C2_Size(64, Len(i.spectator_name) + 1)
            p5 == p4 + C2_Size(32, Len(i.keywords) + 1)
            p6 == p5 + C2_Size(1, 8)
        IN  /\ result.kind = "Ok"
            /\ C2_When(128, "port", i.port)
            /\ C2_When(16, "steam_id", i.steam_id)
            /\ C2_When(64, "spectator_port", i.spectator_port)
            /\ C2_When(64, "spectator_name", chars(i.spectator_name))
            /\ C2_When(32, "keywords", chars(i.keywords))
            /\ C2_When(1, "game_id", i.game_id)
            /\ spans["edf"] = <<p0 - 1, p0>>
            /\ C2_Span(128, "port", p0, 2)
            /\ C2_Span(16, "steam_id", p1, 8)
            /\ C2_Span(64, "spectator_port", p2, 2)
            /\ C2_Span(64, "spectator_name", p3, Len(i.spectator_name) + 1)
            /\ C2_Span(32, "keywords", p4, Len(i.keywords) + 1)
            /\ C2_Span(1, "game_id", p5, 8)
            /\ pos = p6
            /\ reads = [k \in 1..p6 |-> k]

\* a reply with all eight EDF bits set, followed by unused bytes, was decoded
C2_Witness ==
    /\ Done /\ WellFormed
    /\ reply.info.edf = 255
    /\ reply.tail # <<>>
    /\ result.kind = "Ok"

-----------------------------------------------------------------------------
\* C3: for a datagram of at least 4 bytes, a leading value other than
\* FF FF FF FF ends the call with the unsupported-format error and from_bytes
\* is never invoked; with FF FF FF FF from_bytes is invoked once, on exactly
\* the received bytes after those four (none of the receive buffer's tail).
C3_LeadingValueGatesDecoding ==
    (Replied /\ reply.cut >= 4 /\ (InDecode \/ Done)) =>
        IF SubSeq(Arrived, 1, 4) = <<255, 255, 255, 255>>
        THEN calls = <<Body>>
        ELSE /\ calls = <<>>
             /\ Done
             /\ IsErr("Unknown header: ")

\* a split-packet reply (leading value -2) was refused
C3_Witness ==
    /\ Done
    /\ Replied /\ reply.cut > 4
    /\ reply.lead = <<254, 255, 255, 255>>
    /\ IsErrWith("Unknown header: ", -2)
    /\ calls = <<>>

-----------------------------------------------------------------------------
\* C4: a buffer whose first byte is not 0x49 yields the malformed-header error
\* carrying that byte as a character, after reading that byte only, and no
\* record; a first byte of 0x49 never yields that error.
C4_MalformedHeader ==
    (calls # <<>> /\ buf # <<>> /\ pc # "header") =>
        IF buf[1] # 73
        THEN /\ Done
             /\ IsErrWith("Expected header, got: ", Utf8(buf[1]))
             /\ reads = <<1>>
             /\ rd = <<>>
        ELSE ~IsErr("Expected header, got: ")

\* a buffer starting with the byte 0xE9 was refused
C4_Witness ==
    /\ Done
    /\ calls # <<>> /\ buf # <<>> /\ buf[1] = 233 /\ Len(buf) > 1
    /\ IsErrWith("Expected header, got: ", <<195, 169>>)

-----------------------------------------------------------------------------
\* C5: the server_type byte maps 'd', 'l', 'p' to Dedicated, NonDedicated,
\* SourceTVRelay and any other value to the unknown-server-type error carrying
\* it; the os byte maps 'l', 'w', 'm' to Linux, Windows, Mac and any other
\* value to the unknown-environment error carrying it; server_type is checked
\* first; an error returns no record.
C5_TypeName(b) ==
    CASE b = 100 -> "Dedicated" [] b = 108 -> "NonDedicated"
      [] b = 112 -> "SourceTVRelay"

C5_OsName(b) ==
    CASE b = 108 -> "Linux" [] b = 119 -> "Windows" [] b = 109 -> "Mac"

C5_EnumBytes ==
    (Done /\ Replied /\ reply.lead = Lead /\ reply.info.header = HEADER
          /\ reply.cut >= 4 + Len(Encode(reply.info))
          /\ reply.cut <= RECBUF_LEN) =>
        LET t == reply.info.server_type
            o == reply.info.os
        IN  IF t \notin {100, 108, 112}
            THEN IsErrWith("Unknown server type: ", Utf8(t))
            ELSE IF o \notin {108, 119, 109}
            THEN IsErrWith("Unknown environment: ", Utf8(o))
            ELSE /\ result.kind = "Ok"
                 /\ result.value.server_type = C5_TypeName(t)
                 /\ result.value.os = C5_OsName(o)

\* a reply with server_type 'x' and os 'z' was refused for its server_type
C5_Witness ==
    /\ Done /\ Replied
    /\ reply.info.server_type = 120 /\ reply.info.os = 122
    /\ reply.cut = 4 + Len(Encode(reply.info))
    /\ IsErrWith("Unknown server type: ", <<120>>)

-----------------------------------------------------------------------------
\* C6: in a decoded reply is_public is true iff the visibility byte is 0 and
\* uses_vac is true iff the VAC byte is 1; no value of either byte makes the
\* decode of a well-formed reply fail.
C6_FlagBytes ==
    (Done /\ WellFormed) =>
        /\ result.kind = "Ok"
        /\ result.value.is_public = (reply.info.visibility = 0)
        /\ result.value.uses_vac = (reply.info.vac = 1)

\* a reply with visibility 255 and VAC byte 2 was decoded
C6_Witness ==
    /\ Done /\ WellFormed
    /\ reply.info.visibility = 255 /\ reply.info.vac = 2
    /\ result.kind = "Ok"
    /\ ~result.value.is_public /\ ~result.value.uses_vac

-----------------------------------------------------------------------------
\* C7: the call performs bind, set receive timeout, connect, send, receive,
\* decode in this order, each at most once; it sends only the request
\* FF FF FF FF 54 "Source Engine Query" 00, at most once; a failed step ends
\* the call with its error at once, and an ended call takes no further step.
C7_Order == <<"bind", "set_read_timeout", "connect", "send", "recv">>

C7_Request ==
    <<255, 255, 255, 255, 84, 83, 111, 117, 114, 99, 101, 32, 69, 110, 103,
      105, 110, 101, 32, 81, 117, 101, 114, 121, 0>>

C7_IoErrors ==
    {"AddrNotAvailable", "InvalidInput", "Other", "ConnectionRefused",
     "WouldBlock"}

C7_StepsInOrder ==
    /\ Len(steps) <= 5
    /\ steps = SubSeq(C7_Order, 1, Len(steps))
    /\ sent \in {<<>>, <<C7_Request>>}
    /\ (sent # <<>>) => Len(steps) >= 4
    /\ Len(steps) = 5 => sent # <<>>
    /\ Len(calls) <= 1
    /\ (Replied \/ calls # <<>> \/ InDecode) => Len(steps) = 5
    /\ (result.kind = "Err" /\ result.error \in C7_IoErrors) =>
            /\ Done
            /\ ~Replied /\ calls = <<>>
            /\ (Len(steps) < 4 => sent = <<>>)
    /\ (result.kind # "none") <=> Done

C7_OneExchangeNoRetry ==
    /\ []C7_StepsInOrder
    /\ [][~Done]_vars

\* the receive timed out and the call ended there
C7_Witness ==
    /\ Done
    /\ result.kind = "Err" /\ result.error = "WouldBlock"
    /\ steps = C7_Order
    /\ sent = <<C7_Request>>
    /\ calls = <<>>

-----------------------------------------------------------------------------
\* C8, as stated: the concrete reply with EDF 0x81, port bytes 01 6B and
\* game_id bytes 2A 00 .. 00 decodes to port = Some(27905), game_id =
\* Some(42), and steam_id, spectator_port, spectator_name, keywords absent.
C8_Reply ==
    <<255, 255, 255, 255, 73, 17,
      84, 101, 115, 116, 0,
      100, 101, 95, 100, 117, 115, 116, 50, 0,
      99, 115, 116, 114, 105, 107, 101, 0,
      67, 111, 117, 110, 116, 101, 114, 45, 83, 116, 114, 105, 107, 101, 0,
      16, 0, 5, 16, 0, 100, 108, 0, 1,
      49, 46, 48, 0,
      129, 1, 107, 42, 0, 0, 0, 0, 0, 0, 0>>

C8_Decodes(port) ==
    (Done /\ Replied /\ Arrived = C8_Reply) =>
        /\ result.kind = "Ok"
        /\ result.value.port = Some(port)
        /\ result.value.game_id = Some(<<42, 0, 0, 0>>)
        /\ result.value.steam_id = None
        /\ result.value.spectator_port = None
        /\ result.value.spectator_name = None
        /\ result.value.keywords = None

C8_PortIs27905 == C8_Decodes(27905)

\* C8, amended: the same reply decodes to port = Some(27393), the
\* little-endian value of the bytes 01 6B, and game_id = Some(42), with
\* steam_id, spectator_port, spectator_name and keywords absent.
C8_PortIs27393 == C8_Decodes(27393)

\* the concrete reply was received and decoded
C8_Witness ==
    /\ Done /\ Replied /\ Arrived = C8_Reply
    /\ result.kind = "Ok"

-----------------------------------------------------------------------------
\* C9: throughout a decode of any buffer the cursor is within the buffer, no
\* index beyond the buffer's length is read, the bytes are read once each in
\* increasing order (the cursor never moves back), and every step of the
\* decode brings it nearer its end, which it reaches after at most
\* buffer-length byte reads.
C9_Order ==
    <<"header", "protocol_version", "name", "map", "folder", "game",
      "steamapp_id", "players", "max_players", "bots", "server_type", "os",
      "is_public", "uses_vac", "version", "edf", "port", "steam_id",
      "spectator_port", "spectator_name", "keywords", "game_id", "ok", "done">>

C9_StepsLeft == Len(C9_Order) - (CHOOSE k \in 1..Len(C9_Order) : C9_Order[k] = pc)

C9_InBounds ==
    /\ pos <= Len(buf)
    /\ pos = Len(reads)
    /\ \A k \in 1..Len(reads) : reads[k] = k /\ reads[k] <= Len(buf)

C9_Progress ==
    InDecode =>
        /\ pos' >= pos
        /\ (C9_StepsLeft' + (Len(buf') - pos')) < (C9_StepsLeft + (Len(buf) - pos))

C9_CursorStaysInBuffer ==
    /\ []C9_InBounds
    /\ [][C9_Progress]_vars

\* a string scan ran to the end of a buffer that has no zero byte left
C9_Witness ==
    /\ Done
    /\ result.kind = "Panic"
    /\ s # <<>>
    /\ pos = Len(buf)
    /\ Len(reads) = Len(buf)

-----------------------------------------------------------------------------
\* C10: however the call ends (a socket error, an unsupported-format or decode
\* error, a decode cut short by a truncated reply, success) the socket it
\* bound is closed; the socket is open for the whole call and receive is the
\* last operation on it.
C10_SocketReleased ==
    /\ Done => socket = IF steps = <<"bind">> THEN "none" ELSE "closed"
    /\ (~Done /\ pc # "bind") => socket = "open"
    /\ \A k \in 1..Len(steps) : steps[k] = "recv" => k = Len(steps)

\* the decode of a truncated reply ended abnormally with the socket closed
C10_Witness ==
    /\ Done
    /\ Truncated
    /\ result.kind = "Panic"
    /\ calls # <<>>
    /\ socket = "closed"

====
